---- MODULE Spec2Model ----
(***************************************************************************)
(* Traffic simulation core of better-bridgeway-builder (src/src/index.ts): *)
(* Obstacle.moveObstacle with its BRAKE speed policy and PASS lane-change  *)
(* policy, Lane.updateObstacles and CrosswalkSign.update.                   *)
(*                                                                         *)
(* Numbers.  Every length, coordinate and speed of the program is a        *)
(* JavaScript number.  The model holds them as integers counting EIGHTHS   *)
(* of a unit (the value v of the program is the integer 8*v here), which   *)
(* represents exactly every value the program computes from inputs that    *)
(* are multiples of 1/8: the code only adds, subtracts and compares them,  *)
(* and the one division (time to collision) is compared with a threshold,  *)
(* which is done by cross-multiplication.  Times are in milliseconds.      *)
(***************************************************************************)
EXTENDS Integers, Sequences, FiniteSets

VARIABLES
    lane,     \* the Lane: [direction, streetLength, obstacles]
    player,   \* the player argument of the coming call, or NoPlayer when none is passed
    sign,     \* the CrosswalkSign: [flashing, flashingSequence, timestampOfPreviousFlash]
    now,      \* Date.now(), in milliseconds
    moves,    \* number of changes of the player argument so far (bounds the exploration)
    updates,  \* number of updates of the sign so far (bounds the exploration)
    street,   \* the Street: [lanes, sceneObjects]
    lastObstacleTime,  \* lastObstacleTime of every ObstacleProducer, by producer id
    spawn     \* the last generateObstacles call: its random draws and what it did

vars == <<lane, player, sign, now, moves, updates, street, lastObstacleTime, spawn>>

\* the variables of the street and its producers
streetVars == <<street, lastObstacleTime, spawn>>

\* n whole units, in eighths
U(n) == 8 * n

LEFT == -1
RIGHT == 1

STOPPED == 0
SLOW == U(4)
MEDIUM == U(10)
FAST == U(14)

NONE == "NONE"
BRAKE == "BRAKE"
PASS == "PASS"

Abs(n) == IF n < 0 THEN -n ELSE n

Max(a, b) == IF a > b THEN a ELSE b

\* a distance: Math's Infinity, or a finite number
Infinity == [finite |-> FALSE]

Finite(d) == [finite |-> TRUE, value |-> d]

\* d < k for a distance d that may be Infinity
Less(d, k) == d.finite /\ d.value < k

NoPlayer == [kind |-> "none"]

\* new Player(x, y, width, height)
Player(x, y, width, height) ==
    [kind |-> "player", x |-> x, y |-> y, width |-> width, height |-> height]

\* new Obstacle(...) with originalSpeed and originalY left to their defaults
Obstacle(id, x, y, width, height, speed, direction, avoidance, detectCollisions, emergencyVehicle) ==
    [kind |-> "obstacle", id |-> id, x |-> x, y |-> y, width |-> width,
     height |-> height, speed |-> speed, direction |-> direction,
     image |-> "template", avoidance |-> avoidance,
     detectCollisions |-> detectCollisions,
     emergencyVehicle |-> emergencyVehicle,
     originalSpeed |-> speed, originalY |-> y]

\* the object identity test (obstacle === this); a clone has the id 0
Same(a, b) == a.kind = "obstacle" /\ b.kind = "obstacle" /\ a.id = b.id

\* Obstacle.clone(x, y): a new object, every other field carried over
clone(self, x, y) == [self EXCEPT !.id = 0, !.x = x, !.y = y]

\* GameObject.intersects: axis-aligned boxes overlap; boxes that only touch
\* (a zero gap on one axis) do not
intersects(a, b) ==
    /\ a.x < b.x + b.width
    /\ a.x + a.width > b.x
    /\ a.y < b.y + b.height
    /\ a.y + a.height > b.y

\* Obstacle.collisionDetected
collisionDetected(self, obstacles) ==
    \E i \in 1..Len(obstacles) :
        /\ ~Same(obstacles[i], self)
        /\ intersects(self, obstacles[i])

\* the isObjectInFront test of getClosestObject
isObjectInFront(self, gameObject) ==
    /\ gameObject.y >= self.y - self.height
    /\ gameObject.y <= self.y + self.height
    /\ \/ self.direction = RIGHT /\ self.x < gameObject.x
       \/ self.direction = LEFT /\ self.x > gameObject.x

\* Obstacle.getDistanceTo
getDistanceTo(self, gameObject) == Abs(self.x - gameObject.x)

\* Obstacle.getClosestObject: the index in gameObjects of the closest object
\* in front, the first one in array order among equally close ones; 0 stands
\* for undefined
getClosestObject(self, gameObjects) ==
    LET front == {i \in 1..Len(gameObjects) : isObjectInFront(self, gameObjects[i])}
    IN  IF front = {} THEN 0
        ELSE CHOOSE i \in front :
                \A j \in front :
                    \/ getDistanceTo(self, gameObjects[i]) < getDistanceTo(self, gameObjects[j])
                    \/ /\ getDistanceTo(self, gameObjects[i]) = getDistanceTo(self, gameObjects[j])
                       /\ i <= j

\* closestObstacle instanceof Obstacle ? closestObstacle.speed : 0
speedOf(gameObject) == IF gameObject.kind = "obstacle" THEN gameObject.speed ELSE 0

\* Obstacle.calculateTimeToCollision: undefined, -Infinity, or the quotient
\* distance / relativeSpeed, kept as numerator and denominator
calculateTimeToCollision(self, gameObjects) ==
    LET c == getClosestObject(self, gameObjects)
    IN  IF c = 0 THEN [kind |-> "undefined"]
        ELSE LET relativeSpeed == self.speed - speedOf(gameObjects[c])
             IN  IF relativeSpeed <= 0 THEN [kind |-> "-Infinity"]
                 ELSE [kind |-> "quotient",
                       num |-> getDistanceTo(self, gameObjects[c]),
                       den |-> relativeSpeed]

\* Obstacle.calculateDistanceToClosestObject
calculateDistanceToClosestObject(self, gameObjects) ==
    LET c == getClosestObject(self, gameObjects)
    IN  IF c = 0 THEN Infinity ELSE Finite(getDistanceTo(self, gameObjects[c]))

\* Obstacle.emergencyVehicleDetected
emergencyVehicleDetected(self, obstacles) ==
    \E i \in 1..Len(obstacles) :
        ~Same(obstacles[i], self) /\ obstacles[i].emergencyVehicle

\* hazards with the player forgotten: only the other obstacles
hazards_ObstaclesOnly(self, p, obstacles) ==
    SelectSeq(obstacles, LAMBDA g : ~Same(g, self))

\* [...obstacles, player].filter((gameObject) => gameObject !== this)
hazards(self, p, obstacles) ==
    SelectSeq(obstacles \o <<p>>, LAMBDA g : ~Same(g, self))

\* a time to collision that is never taken as imminent
collisionImminent_Never(ttc) == FALSE

\* timeToCollision && timeToCollision > 0 && timeToCollision < 100
TimeToCollisionThreshold == 100

collisionImminent(ttc) ==
    /\ ttc.kind = "quotient"
    /\ ttc.num > 0
    /\ ttc.num < TimeToCollisionThreshold * ttc.den

\* the steps with a slip: the close-range step added instead of subtracted,
\* and a recovery step of 0.5
NearStep_Added == 0 - U(1)
RecoverStep_Half == U(1) \div 2

\* the distance thresholds and speed steps of calculateSpeed
FarDistance == U(200)
NearDistance == U(100)
ImminentStep == U(1) \div 2
FarStep == U(1) \div 2
NearStep == U(1)
RecoverStep == U(1) \div 4

\* calculateSpeed that recovers only when no reduction was applied and the
\* current speed is below the original speed
calculateSpeed_RecoverUnreduced(self, p, obstacles) ==
    IF self.avoidance = BRAKE
    THEN LET gameObjects == hazards(self, p, obstacles)
             timeToCollision == calculateTimeToCollision(self, gameObjects)
             s1 == IF collisionImminent(timeToCollision)
                   THEN self.speed - ImminentStep ELSE self.speed
             distanceToClosest == calculateDistanceToClosestObject(self, gameObjects)
             s2 == IF Less(distanceToClosest, FarDistance) THEN s1 - FarStep ELSE s1
             s3 == IF \/ Less(distanceToClosest, NearDistance)
                      \/ emergencyVehicleDetected(self, obstacles)
                   THEN s2 - NearStep
                   ELSE IF s2 = self.speed /\ self.speed < self.originalSpeed
                        THEN s2 + RecoverStep
                        ELSE s2
         IN  Max(s3, 0)
    ELSE self.speed

\* calculateSpeed without the final clamp to 0
calculateSpeed_NoClamp(self, p, obstacles) ==
    IF self.avoidance = BRAKE
    THEN LET gameObjects == hazards(self, p, obstacles)
             timeToCollision == calculateTimeToCollision(self, gameObjects)
             s1 == IF collisionImminent(timeToCollision)
                   THEN self.speed - ImminentStep ELSE self.speed
             distanceToClosest == calculateDistanceToClosestObject(self, gameObjects)
             s2 == IF Less(distanceToClosest, FarDistance) THEN s1 - FarStep ELSE s1
         IN  IF \/ Less(distanceToClosest, NearDistance)
                \/ emergencyVehicleDetected(self, obstacles)
             THEN s2 - NearStep
             ELSE IF self.originalSpeed # 0 /\ s2 < self.originalSpeed
                  THEN s2 + RecoverStep
                  ELSE s2
    ELSE self.speed

\* Obstacle.calculateSpeed
calculateSpeed(self, p, obstacles) ==
    IF self.avoidance = BRAKE
    THEN LET gameObjects == hazards(self, p, obstacles)
             timeToCollision == calculateTimeToCollision(self, gameObjects)
             s1 == IF collisionImminent(timeToCollision)
                   THEN self.speed - ImminentStep ELSE self.speed
             distanceToClosest == calculateDistanceToClosestObject(self, gameObjects)
             s2 == IF Less(distanceToClosest, FarDistance) THEN s1 - FarStep ELSE s1
             s3 == IF \/ Less(distanceToClosest, NearDistance)
                      \/ emergencyVehicleDetected(self, obstacles)
                   THEN s2 - NearStep
                   ELSE IF self.originalSpeed # 0 /\ s2 < self.originalSpeed
                        THEN s2 + RecoverStep
                        ELSE s2
         IN  Max(s3, 0)
    ELSE self.speed

\* the y step of a passing obstacle, and the clearance (in widths) it needs
\* to return to its lane and to start passing
YStep == U(8)
ReturnWidths == 5
PassWidths == 2

\* calculateYForPassing with the same passing side for both directions
calculateYForPassing_OneSide(self, p, obstacles) ==
    LET c == getClosestObject(self, obstacles)
        distanceAwayFromOriginal == Abs(self.originalY - self.y)
        returnPreview == clone(self, self.x, self.originalY)
        r == getClosestObject(returnPreview, obstacles)
        returns ==
            /\ distanceAwayFromOriginal > self.height
            /\ ~collisionDetected(returnPreview, obstacles)
            /\ \/ r = 0
               \/ getDistanceTo(returnPreview, obstacles[r]) > ReturnWidths * self.width
        yAdjustment == YStep
    IN  IF self.avoidance # PASS THEN self.y
        ELSE IF c = 0 THEN self.y
        ELSE IF self.speed < obstacles[c].speed THEN self.originalY
        ELSE IF returns THEN self.originalY
        ELSE IF getDistanceTo(self, obstacles[c]) > PassWidths * self.width THEN self.y
        ELSE IF distanceAwayFromOriginal < self.height THEN self.y + yAdjustment
        ELSE self.y

\* calculateYForPassing that still nudges an obstacle displaced by exactly
\* its height
calculateYForPassing_UpToHeight(self, p, obstacles) ==
    LET c == getClosestObject(self, obstacles)
        distanceAwayFromOriginal == Abs(self.originalY - self.y)
        returnPreview == clone(self, self.x, self.originalY)
        r == getClosestObject(returnPreview, obstacles)
        returns ==
            /\ distanceAwayFromOriginal > self.height
            /\ ~collisionDetected(returnPreview, obstacles)
            /\ \/ r = 0
               \/ getDistanceTo(returnPreview, obstacles[r]) > ReturnWidths * self.width
        yAdjustment == YStep * (IF self.direction = RIGHT THEN -1 ELSE 1)
    IN  IF self.avoidance # PASS THEN self.y
        ELSE IF c = 0 THEN self.y
        ELSE IF self.speed < obstacles[c].speed THEN self.originalY
        ELSE IF returns THEN self.originalY
        ELSE IF getDistanceTo(self, obstacles[c]) > PassWidths * self.width THEN self.y
        ELSE IF distanceAwayFromOriginal <= self.height THEN self.y + yAdjustment
        ELSE self.y

\* Obstacle.calculateYForPassing
calculateYForPassing(self, p, obstacles) ==
    LET c == getClosestObject(self, obstacles)
        distanceAwayFromOriginal == Abs(self.originalY - self.y)
        returnPreview == clone(self, self.x, self.originalY)
        r == getClosestObject(returnPreview, obstacles)
        returns ==
            /\ distanceAwayFromOriginal > self.height
            /\ ~collisionDetected(returnPreview, obstacles)
            /\ \/ r = 0
               \/ getDistanceTo(returnPreview, obstacles[r]) > ReturnWidths * self.width
        yAdjustment == YStep * (IF self.direction = RIGHT THEN -1 ELSE 1)
    IN  IF self.avoidance # PASS THEN self.y
        ELSE IF c = 0 THEN self.y
        ELSE IF self.speed < obstacles[c].speed THEN self.originalY
        ELSE IF returns THEN self.originalY
        ELSE IF getDistanceTo(self, obstacles[c]) > PassWidths * self.width THEN self.y
        ELSE IF distanceAwayFromOriginal < self.height THEN self.y + yAdjustment
        ELSE self.y

\* moveObstacle whose crashed obstacle is not stopped
moveObstacle_CrashKeepsSpeed(self, p, obstacles) ==
    IF self.detectCollisions /\ collisionDetected(self, obstacles)
    THEN [self EXCEPT !.image = "crashed", !.avoidance = NONE,
                      !.detectCollisions = FALSE, !.emergencyVehicle = FALSE]
    ELSE LET adjustedSpeed == calculateSpeed(self, p, obstacles)
         IN  [self EXCEPT !.x = self.x + adjustedSpeed * self.direction,
                          !.y = calculateYForPassing(self, p, obstacles),
                          !.speed = adjustedSpeed]

\* moveObstacle whose crashed obstacle keeps its avoidance
moveObstacle_CrashKeepsAvoidance(self, p, obstacles) ==
    IF self.detectCollisions /\ collisionDetected(self, obstacles)
    THEN [self EXCEPT !.speed = STOPPED, !.image = "crashed",
                      !.detectCollisions = FALSE, !.emergencyVehicle = FALSE]
    ELSE LET adjustedSpeed == calculateSpeed(self, p, obstacles)
         IN  [self EXCEPT !.x = self.x + adjustedSpeed * self.direction,
                          !.y = calculateYForPassing(self, p, obstacles),
                          !.speed = adjustedSpeed]

\* Obstacle.moveObstacle
moveObstacle(self, p, obstacles) ==
    IF self.detectCollisions /\ collisionDetected(self, obstacles)
    THEN [self EXCEPT !.speed = STOPPED, !.image = "crashed", !.avoidance = NONE,
                      !.detectCollisions = FALSE, !.emergencyVehicle = FALSE]
    ELSE LET adjustedSpeed == calculateSpeed(self, p, obstacles)
         IN  [self EXCEPT !.x = self.x + adjustedSpeed * self.direction,
                          !.y = calculateYForPassing(self, p, obstacles),
                          !.speed = adjustedSpeed]

\* the filter with the width forgotten in a LEFT lane
inLane_NoWidth(l, obstacle) ==
    IF l.direction = LEFT
    THEN obstacle.x > 0
    ELSE obstacle.x < l.streetLength

\* a filter that keeps every obstacle
inLane_Always(l, obstacle) == TRUE

\* the filter of Lane.updateObstacles: the obstacle stays in the lane
inLane(l, obstacle) ==
    IF l.direction = LEFT
    THEN obstacle.x + obstacle.width > 0
    ELSE obstacle.x < l.streetLength

\* the map of Lane.updateObstacles
movedObstacles(l, p, obstacles) ==
    [i \in 1..Len(l.obstacles) |-> moveObstacle(l.obstacles[i], p, obstacles)]

\* Lane.updateObstacles
updateObstacles(l, p, obstacles) ==
    [l EXCEPT !.obstacles =
        SelectSeq(movedObstacles(l, p, obstacles), LAMBDA o : inLane(l, o))]

(***************************************************************************)
(* The lane under traffic.  A lane starts with a rear obstacle, a lead     *)
(* obstacle ahead of it and possibly a third obstacle further ahead; the   *)
(* player passed to a call stands ahead in the lane's band or away from    *)
(* the street, and the caller may pass the other one to the next call.     *)
(***************************************************************************)

\* the Street's default streetLength
StreetLength == U(600)

\* geometry of the initial obstacles
LaneY == U(100)
ObstacleWidth == U(20)
StartX == U(300)

\* the most changes of the player argument explored in one run
MaxMoves == 1

\* a speed that is not a multiple of the recovery step (0.625)
CRAWL == U(1) \div 2 + U(1) \div 8

Avoidances == {NONE, BRAKE, PASS}
\* only a braking obstacle is tried at the crawling speed
RearSpeeds(avoidance) ==
    IF avoidance = BRAKE THEN {CRAWL, SLOW, MEDIUM} ELSE {SLOW, MEDIUM}
LeadSpeeds == {STOPPED, SLOW, FAST}
Gaps == {U(30), U(150), U(250)}
Heights == {U(20), U(24)}

\* x of an obstacle placed d ahead of x0 in direction dir
Ahead(x0, dir, d) == x0 + dir * d

\* new Lane(direction, laneWidth, streetLength, centerY, style, producers, obstacles)
Lane(direction, obstacles) ==
    [direction |-> direction, streetLength |-> StreetLength, obstacles |-> obstacles]

Rear(dir, avoidance, speed, height, detect, emergency) ==
    Obstacle(1, StartX, LaneY, ObstacleWidth, height, speed, dir, avoidance, detect, emergency)

Lead(id, dir, gap, dy, speed, emergency) ==
    Obstacle(id, Ahead(StartX, dir, gap), LaneY + dy, ObstacleWidth, U(20), speed, dir, NONE, FALSE, emergency)

\* lanes holding a rear and a lead obstacle
PairLanes ==
    UNION {{Lane(dir, <<Rear(dir, a, s, U(20), d, re), Lead(2, dir, g, 0, ls, e)>>) :
                dir \in {LEFT, RIGHT}, s \in RearSpeeds(a), d \in BOOLEAN,
                re \in BOOLEAN, g \in Gaps, ls \in LeadSpeeds, e \in BOOLEAN} :
           a \in Avoidances}

\* lanes holding a passing rear obstacle, a slow lead and a third obstacle
TripleLanes ==
    {Lane(dir, <<Lead(2, dir, U(30), 0, ls, FALSE), Rear(dir, PASS, MEDIUM, h, FALSE, FALSE),
                 Lead(3, dir, g, dir * dy, ts, FALSE)>>) :
        dir \in {LEFT, RIGHT}, h \in Heights, ls \in {STOPPED, SLOW},
        g \in {U(150), U(250)}, dy \in {0, -U(8)}, ts \in {SLOW, FAST}}

InitLanes == PairLanes \cup TripleLanes

\* the player ahead of the traffic, inside the lane's band
PlayerInLane(dir) == Player(Ahead(StartX, dir, U(250)), LaneY, U(20), U(20))

\* the player below the street
PlayerAway(dir) == Player(Ahead(StartX, dir, U(250)), LaneY + U(200), U(20), U(20))

Players(dir) == {PlayerInLane(dir), PlayerAway(dir)}

\* new Street(topOfStreetY, streetLength, lanes, sceneObjects)
Street(lanes, sceneObjects) == [lanes |-> lanes, sceneObjects |-> sceneObjects]

\* no generateObstacles call so far
NoSpawn == [n |-> 0, lane |-> 0, producer |-> 0, thrown |-> FALSE, fired |-> <<>>]

\* new CrosswalkSign(x, y, direction, crosswalk)
NewSign == [flashing |-> FALSE, flashingSequence |-> FALSE, timestampOfPreviousFlash |-> 0]

Init ==
    /\ lane \in InitLanes
    /\ player \in Players(lane.direction)
    /\ sign = NewSign
    /\ now = 0
    /\ moves = 0
    /\ updates = 0
    /\ street = Street(<<>>, <<>>)
    /\ lastObstacleTime = <<>>
    /\ spawn = NoSpawn

\* one tick of the lane with the same player passed to every call:
\* lane = lane.updateObstacles(player, lane.obstacles)
TickSamePlayer ==
    /\ lane' = updateObstacles(lane, player, lane.obstacles)
    /\ UNCHANGED <<player, sign, now, moves, updates>>
    /\ UNCHANGED streetVars

\* one tick of the lane: lane = lane.updateObstacles(player, lane.obstacles).
\* The player is an argument of the call: the coming call is passed the same
\* player or the other one of Players.
Tick ==
    /\ lane' = updateObstacles(lane, player, lane.obstacles)
    /\ \/ UNCHANGED <<player, moves>>
       \/ /\ moves < MaxMoves
          /\ player' \in Players(lane.direction) \ {player}
          /\ moves' = moves + 1
    /\ UNCHANGED <<sign, now, updates>>
    /\ UNCHANGED streetVars

Next == Tick

Spec == Init /\ [][Next]_vars

(***************************************************************************)
(* Properties of the lane under traffic (specification Spec).              *)
(***************************************************************************)

\* the obstacles of the lane, as a set
Live == {lane.obstacles[i] : i \in 1..Len(lane.obstacles)}

\* the obstacle o after the step, if the lane still holds it
After(o) == {n \in {lane'.obstacles[j] : j \in 1..Len(lane'.obstacles)} : n.id = o.id}

\* the step is a tick of the lane, in which the player argument of the
\* coming call may change
IsTick == moves' \in {moves, moves + 1}

\* o crashes in this tick
Crashes(o) == o.detectCollisions /\ collisionDetected(o, lane.obstacles)

\* the closest relevant object (obstacle or player) ahead of o, as an index
\* into Hazards(o), and the closest obstacle ahead of o
Hazards(o) == hazards(o, player, lane.obstacles)
ClosestHazard(o) == getClosestObject(o, Hazards(o))
HazardDistance(o) == getDistanceTo(o, Hazards(o)[ClosestHazard(o)])
ClosestObstacle(o) == getClosestObject(o, lane.obstacles)
ObstacleDistance(o) == getDistanceTo(o, lane.obstacles[ClosestObstacle(o)])

\* C1: an obstacle that detects collisions and overlaps another obstacle of
\* the obstacle set comes out of moveObstacle crashed (speed 0, no collision
\* detection, no emergency vehicle, same x and y), and a crashed obstacle
\* comes out of every later moveObstacle with speed 0, no collision
\* detection and the same x and y.
C1_CrashedIsTerminal ==
    [][IsTick =>
        \A o \in Live :
            (Crashes(o) \/ o.image = "crashed") =>
                \E n \in After(o) :
                    /\ n.speed = 0
                    /\ ~n.detectCollisions
                    /\ ~n.emergencyVehicle
                    /\ n.x = o.x /\ n.y = o.y
                    /\ n.image = "crashed"]_vars

\* a crashed obstacle that was an emergency vehicle moving at its original speed
C1_Witness ==
    \E o \in Live :
        /\ o.image = "crashed" /\ o.speed = 0 /\ o.originalSpeed > 0
        /\ ~o.detectCollisions /\ ~o.emergencyVehicle
        /\ \E q \in Live : q.id # o.id /\ intersects(o, q)

\* C2: a BRAKE obstacle whose closest relevant object ahead is less than 100
\* units away does not gain speed in that tick.
C2_NoGainNearHazard ==
    [][IsTick =>
        \A o \in Live :
            (/\ o.avoidance = BRAKE
             /\ ClosestHazard(o) # 0
             /\ HazardDistance(o) < U(100)) =>
                \A n \in After(o) : n.speed <= o.speed]_vars

\* a BRAKE obstacle that has been slowed down and is within 100 units of its hazard
C2_Witness ==
    \E o \in Live :
        /\ o.avoidance = BRAKE
        /\ ClosestHazard(o) # 0
        /\ HazardDistance(o) < U(100)
        /\ o.speed < o.originalSpeed
        /\ o.speed > 0

\* C3 (first half): a BRAKE obstacle is never faster than its original speed.
C3_AtMostOriginalSpeed ==
    \A o \in Live : o.avoidance = BRAKE => o.speed <= o.originalSpeed

\* C3 (second half): one moveObstacle raises the speed of a BRAKE obstacle by
\* at most 0.25.
C3_GainAtMostQuarter ==
    [][IsTick =>
        \A o \in Live :
            o.avoidance = BRAKE =>
                \A n \in After(o) : n.speed <= o.speed + U(1) \div 4]_vars

\* C3: in every reachable state a BRAKE obstacle's speed is at most its
\* original speed, and one moveObstacle never raises it by more than 0.25.
C3_SpeedBounded == []C3_AtMostOriginalSpeed /\ C3_GainAtMostQuarter

\* C4, as claimed: a BRAKE obstacle below its original speed, with no hazard
\* within 200 units ahead and no other obstacle an emergency vehicle, does
\* not lose speed in that tick.
C4_Claimed ==
    [][IsTick =>
        \A o \in Live :
            (/\ o.avoidance = BRAKE
             /\ o.speed < o.originalSpeed
             /\ (ClosestHazard(o) = 0 \/ HazardDistance(o) >= U(200))
             /\ \A q \in Live : q.id # o.id => ~q.emergencyVehicle) =>
                \A n \in After(o) : n.speed >= o.speed]_vars

\* the time to collision of o is above 0 and below 100
Imminent(o) ==
    /\ ClosestHazard(o) # 0
    /\ o.speed > speedOf(Hazards(o)[ClosestHazard(o)])
    /\ HazardDistance(o) < 100 * (o.speed - speedOf(Hazards(o)[ClosestHazard(o)]))

\* o recovers: the precondition of C4, without a crash and without a time
\* to collision below 100
Recovers(o) ==
    /\ o.avoidance = BRAKE
    /\ o.speed < o.originalSpeed
    /\ ~Crashes(o)
    /\ ~Imminent(o)
    /\ (ClosestHazard(o) = 0 \/ HazardDistance(o) >= U(200))
    /\ \A q \in Live : q.id # o.id => ~q.emergencyVehicle

\* C4, amended: a BRAKE obstacle below its original speed that does not
\* crash, whose time to collision is not below 100, with no hazard within
\* 200 units ahead and no other obstacle an emergency vehicle, gains exactly
\* 0.25 in that tick.
C4_RecoversByQuarter ==
    [][IsTick =>
        \A o \in Live :
            Recovers(o) => \A n \in After(o) : n.speed = o.speed + U(1) \div 4]_vars

\* a BRAKE obstacle half way through its recovery, with a hazard still ahead
C4_Witness ==
    \E o \in Live :
        /\ Recovers(o)
        /\ ClosestHazard(o) # 0
        /\ o.speed >= U(1)
        /\ o.speed + U(1) \div 2 <= o.originalSpeed

\* C5: the speed of every obstacle is at least 0.
C5_SpeedNonNegative == \A o \in Live : o.speed >= 0

\* a BRAKE obstacle stopped by braking next to its hazard
C5_Witness ==
    \E o \in Live :
        /\ o.avoidance = BRAKE
        /\ o.speed = 0 /\ o.originalSpeed > 0
        /\ ClosestHazard(o) # 0
        /\ HazardDistance(o) < U(100)

\* o is a PASS obstacle with an obstacle ahead, farther than two widths away
PassFarBehind(o) ==
    /\ o.avoidance = PASS
    /\ ClosestObstacle(o) # 0
    /\ ObstacleDistance(o) > 2 * o.width

\* C7, as claimed: for a PASS obstacle whose closest obstacle ahead is
\* farther than two of its widths away, calculateYForPassing returns the
\* current y, whatever the displacement and the speed of the obstacle ahead.
C7_Claimed ==
    \A o \in Live :
        PassFarBehind(o) => calculateYForPassing(o, player, lane.obstacles) = o.y

\* o is a PASS obstacle at its original y with an obstacle ahead, within two widths
PassCloseBehind(o) ==
    /\ o.avoidance = PASS
    /\ o.y = o.originalY
    /\ ClosestObstacle(o) # 0
    /\ ObstacleDistance(o) <= 2 * o.width

\* y moved by 8 toward the passing side of o
Nudged(o) == IF o.direction = RIGHT THEN o.y - U(8) ELSE o.y + U(8)

\* C8, as claimed: a PASS obstacle at its original y whose closest obstacle
\* ahead is within two of its widths has its y changed by exactly 8 toward
\* the passing side by one moveObstacle.
C8_Claimed ==
    [][IsTick =>
        \A o \in Live :
            PassCloseBehind(o) => \A n \in After(o) : n.y = Nudged(o)]_vars

\* C8, amended: a PASS obstacle of positive height at its original y that
\* does not crash in this tick and whose closest obstacle ahead is within two
\* of its widths and not faster than it has its y changed by exactly 8
\* toward the passing side by one moveObstacle.
C8_NudgedBy8 ==
    [][IsTick =>
        \A o \in Live :
            (/\ PassCloseBehind(o)
             /\ o.height > 0
             /\ ~Crashes(o)
             /\ o.speed >= lane.obstacles[ClosestObstacle(o)].speed) =>
                \A n \in After(o) : n.y = Nudged(o)]_vars

\* a PASS obstacle one step off its original y, just behind a slower obstacle
C8_Witness ==
    \E o \in Live :
        /\ o.avoidance = PASS
        /\ Abs(o.y - o.originalY) = U(8)
        /\ ClosestObstacle(o) # 0
        /\ ObstacleDistance(o) <= 2 * o.width
        /\ o.speed >= lane.obstacles[ClosestObstacle(o)].speed

\* the obstacle has left the street at the far end of the lane
Exited(o) ==
    \/ lane.direction = LEFT /\ o.x + o.width <= 0
    \/ lane.direction = RIGHT /\ o.x >= lane.streetLength

\* C9: Lane.updateObstacles keeps, in their order, exactly the moved
\* obstacles that have not left the street (x + width <= 0 in a LEFT lane,
\* x >= streetLength in a RIGHT lane), so that no obstacle of the lane has
\* left the street after an update.
C9_DropsExited ==
    [][IsTick =>
        /\ lane'.obstacles =
              SelectSeq(movedObstacles(lane, player, lane.obstacles),
                        LAMBDA o : ~Exited(o))
        /\ \A j \in 1..Len(lane'.obstacles) :
              /\ lane.direction = RIGHT => lane'.obstacles[j].x < lane.streetLength
              /\ lane.direction = LEFT =>
                    lane'.obstacles[j].x + lane'.obstacles[j].width > 0]_vars

\* the lead obstacle has been dropped and the rear one is still in the lane
C9_Witness ==
    /\ Len(lane.obstacles) = 1
    /\ lane.obstacles[1].id = 1
    /\ lane.obstacles[1].x # StartX

(***************************************************************************)
(* The braking scenario: one RIGHT lane of length 600, one BRAKE obstacle  *)
(* (speed 10, width 20) at x = 0, the player fixed at x = 550 anywhere in  *)
(* the obstacle's vertical band.                                            *)
(***************************************************************************)

ScenarioObstacle ==
    Obstacle(1, 0, LaneY, U(20), U(20), MEDIUM, RIGHT, BRAKE, FALSE, FALSE)

ScenarioPlayerYs == {LaneY - U(20), LaneY - U(10), LaneY, LaneY + U(10), LaneY + U(20)}

ScenarioInit ==
    /\ lane = Lane(RIGHT, <<ScenarioObstacle>>)
    /\ player \in {Player(U(550), y, U(20), U(20)) : y \in ScenarioPlayerYs}
    /\ sign = NewSign
    /\ now = 0
    /\ moves = 0
    /\ updates = 0
    /\ street = Street(<<>>, <<>>)
    /\ lastObstacleTime = <<>>
    /\ spawn = NoSpawn

\* the lane is ticked for as long as a tick changes it
SpecScenario ==
    ScenarioInit /\ [][TickSamePlayer]_vars /\ WF_vars(TickSamePlayer)

\* the obstacle is less than 100 units from the player
InsideRange == \E o \in Live : getDistanceTo(o, player) < U(100)

ApproachStarts == {0, U(100), U(200), U(300), U(350), U(400), U(450)}

ApproachInit ==
    /\ \E x \in ApproachStarts :
          lane = Lane(RIGHT, <<clone(ScenarioObstacle, x, LaneY)>>)
    /\ player \in {Player(U(550), y, U(20), U(20)) : y \in ScenarioPlayerYs}
    /\ sign = NewSign
    /\ now = 0
    /\ moves = 0
    /\ updates = 0
    /\ street = Street(<<>>, <<>>)
    /\ lastObstacleTime = <<>>
    /\ spawn = NoSpawn

\* the lane is ticked for as long as a tick changes it
SpecApproach == ApproachInit /\ [][TickSamePlayer]_vars /\ WF_vars(TickSamePlayer)

\* the obstacle is in the lane, clear of the player and at least 100 units
\* from it
KeepsAway ==
    /\ Len(lane.obstacles) = 1
    /\ ~intersects(lane.obstacles[1], player)
    /\ Abs(lane.obstacles[1].x - player.x) >= U(100)

\* the obstacle is in the lane and has stopped
Stopped == Len(lane.obstacles) = 1 /\ lane.obstacles[1].speed = 0

\* once stopped the obstacle keeps speed 0 and its x
StaysStopped ==
    [][Stopped => /\ Len(lane'.obstacles) = 1
                  /\ lane'.obstacles[1].speed = 0
                  /\ lane'.obstacles[1].x = lane.obstacles[1].x]_vars

\* C26, as claimed: the obstacle approaching the player never overlaps it
\* and never comes within 100 units of it, it eventually stops and then
\* keeps speed 0 and its x, and it never leaves the lane.
C26_Claimed == []KeepsAway /\ <>[]Stopped /\ StaysStopped

\* C26, amended: the same for an obstacle that starts at least 200 units
\* behind the player (x <= 350).
C26_StopsShortOfPlayer ==
    /\ (lane.obstacles[1].x <= U(350)) => ([]KeepsAway /\ <>[]Stopped)
    /\ StaysStopped

\* the obstacle that started 200 units behind the player has stopped
\* between 100 and 200 units from it
C26_Witness ==
    /\ Stopped
    /\ lane.obstacles[1].x > U(350)
    /\ lane.obstacles[1].x <= U(450)
    /\ KeepsAway

(***************************************************************************)
(* Through traffic: lanes whose rear obstacle has avoidance NONE, ticked   *)
(* for as long as a tick changes the lane.                                 *)
(***************************************************************************)

DriveInit ==
    /\ lane \in {l \in PairLanes : l.obstacles[1].avoidance = NONE}
    /\ player \in Players(lane.direction)
    /\ sign = NewSign
    /\ now = 0
    /\ moves = 0
    /\ updates = 0
    /\ street = Street(<<>>, <<>>)
    /\ lastObstacleTime = <<>>
    /\ spawn = NoSpawn

SpecDrive == DriveInit /\ [][Next]_vars /\ WF_vars(Tick)

\* an obstacle with avoidance NONE and a positive speed
Driving(o) == o.avoidance = NONE /\ o.speed > 0

\* the obstacle moved by its speed is beyond the far end of the street
PassedFarEnd(o) ==
    IF lane.direction = RIGHT
    THEN o.x + o.speed >= lane.streetLength
    ELSE o.x - o.speed + o.width <= 0

\* a driving obstacle that does not crash in a tick keeps its speed and y and
\* advances by its speed, and leaves the lane only beyond the far end
DrivesOn ==
    [][IsTick =>
        \A j \in 1..Len(lane.obstacles) :
            LET o == lane.obstacles[j]
            IN  Driving(o) =>
                  /\ After(o) = {} => PassedFarEnd(o)
                  /\ \A n \in After(o) :
                        \/ n.image = "crashed"
                        \/ /\ n.speed = o.speed
                           /\ n.y = o.y
                           /\ n.x = o.x + o.speed * lane.direction
                           /\ ~PassedFarEnd(o)]_vars

\* C27: an obstacle with avoidance NONE and a positive speed that never
\* crashes keeps its speed and y in every tick, is never removed before it
\* has passed the far end of the street, and is removed after finitely many
\* ticks: eventually no such obstacle is left in the lane.
C27_DrivesThrough ==
    /\ DrivesOn
    /\ <>[](\A j \in 1..Len(lane.obstacles) : ~Driving(lane.obstacles[j]))

\* both obstacles have driven out of the lane
C27_Witness == lane.obstacles = <<>>

(***************************************************************************)
(* The pedestrian signal.  The player stands inside the crosswalk zone,    *)
(* outside it or against its edge, or is absent from the entities given to *)
(* update; time passes between updates.                                     *)
(***************************************************************************)

\* CrosswalkSign.getFlashIntervalInMilliseconds
FlashInterval == 500

\* the granularity of the clock, and the time explored
TimeStep == FlashInterval \div 2
MaxTime == 2000
MaxUpdates == 10

\* the crosswalk zone the sign monitors
Crosswalk == [kind |-> "crosswalk", x |-> U(280), y |-> 0, width |-> U(40), height |-> U(300)]

SignPlayers ==
    {NoPlayer,
     Player(U(290), U(100), U(20), U(20)),
     Player(U(260), U(100), U(20), U(20)),
     Player(U(100), U(100), U(20), U(20))}

\* others.find((other) => other instanceof Player): an index, 0 for undefined
findPlayer(others) ==
    LET ps == {i \in 1..Len(others) : others[i].kind = "player"}
    IN  IF ps = {} THEN 0 ELSE CHOOSE i \in ps : \A j \in ps : i <= j

\* CrosswalkSign.flash, at time t
flash(self, sequence, t) ==
    [flashing |-> TRUE, flashingSequence |-> sequence, timestampOfPreviousFlash |-> t]

\* update without the flash interval: it toggles on every call
update_NoInterval(self, others, t) ==
    LET pl == findPlayer(others)
    IN  IF self.flashing \/ (pl # 0 /\ intersects(others[pl], Crosswalk))
        THEN flash(self, ~self.flashingSequence, t)
        ELSE self

\* update that only looks at the player, not at the flashing flag
update_NeedsPlayer(self, others, t) ==
    LET pl == findPlayer(others)
    IN  IF pl # 0 /\ intersects(others[pl], Crosswalk)
        THEN IF t - self.timestampOfPreviousFlash > FlashInterval
             THEN flash(self, ~self.flashingSequence, t)
             ELSE self
        ELSE self

\* update that toggles as soon as the flash interval has elapsed (>=)
update_AtInterval(self, others, t) ==
    LET pl == findPlayer(others)
    IN  IF self.flashing \/ (pl # 0 /\ intersects(others[pl], Crosswalk))
        THEN IF t - self.timestampOfPreviousFlash >= FlashInterval
             THEN flash(self, ~self.flashingSequence, t)
             ELSE self
        ELSE self

\* update that flashes for a player anywhere, inside the zone or not
update_AnyPlayer(self, others, t) ==
    LET pl == findPlayer(others)
    IN  IF self.flashing \/ pl # 0
        THEN IF t - self.timestampOfPreviousFlash > FlashInterval
             THEN flash(self, ~self.flashingSequence, t)
             ELSE self
        ELSE self

\* CrosswalkSign.update, at time t
update(self, others, t) ==
    LET pl == findPlayer(others)
    IN  IF self.flashing \/ (pl # 0 /\ intersects(others[pl], Crosswalk))
        THEN IF t - self.timestampOfPreviousFlash > FlashInterval
             THEN flash(self, ~self.flashingSequence, t)
             ELSE self
        ELSE self

\* [...obstacles, player], with the player possibly missing
Entities == lane.obstacles \o (IF player = NoPlayer THEN <<>> ELSE <<player>>)

SignInit ==
    /\ lane = Lane(RIGHT, <<>>)
    /\ player \in SignPlayers
    /\ sign = NewSign
    /\ now = 0
    /\ moves = 0
    /\ updates = 0
    /\ street = Street(<<>>, <<>>)
    /\ lastObstacleTime = <<>>
    /\ spawn = NoSpawn

\* sceneObject.update([...obstacles, player]) of Street.updateObstacles.  The
\* player is an argument of the call: the coming call is passed any of
\* SignPlayers.
SignUpdate ==
    /\ updates < MaxUpdates
    /\ sign' = update(sign, Entities, now)
    /\ updates' = updates + 1
    /\ player' \in SignPlayers
    /\ UNCHANGED <<lane, now, moves>>
    /\ UNCHANGED streetVars

\* the clock advances
AdvanceTime ==
    /\ now < MaxTime
    /\ now' = now + TimeStep
    /\ UNCHANGED <<lane, player, sign, moves, updates>>
    /\ UNCHANGED streetVars

SignNext == SignUpdate \/ AdvanceTime

SpecSign == SignInit /\ [][SignNext]_vars

\* the player's box intersects the monitored crosswalk zone
PlayerInZone == player # NoPlayer /\ intersects(player, Crosswalk)

\* C10: while the signal is not flashing and the player's box does not
\* intersect the crosswalk zone, no step, at any time, changes the signal.
C10_IdleSignUnchanged ==
    [][(~sign.flashing /\ ~PlayerInZone) => sign' = sign]_vars

\* the signal still in its initial state after ten updates, more than the
\* flash interval after its construction, with the player outside the zone
C10_Witness ==
    /\ updates = MaxUpdates
    /\ now > FlashInterval
    /\ player # NoPlayer
    /\ ~PlayerInZone
    /\ sign = NewSign

\* the three reductions of the speed of o in this tick: 0.5 for a time to
\* collision above 0 and below 100, 0.5 for a hazard less than 200 units
\* ahead, 1 for a hazard less than 100 units ahead or another obstacle that
\* is an emergency vehicle
ImminentCut(o) == IF Imminent(o) THEN U(1) \div 2 ELSE 0
FarCut(o) == IF ClosestHazard(o) # 0 /\ HazardDistance(o) < U(200) THEN U(1) \div 2 ELSE 0
NearCut(o) ==
    IF \/ ClosestHazard(o) # 0 /\ HazardDistance(o) < U(100)
       \/ \E q \in Live : q.id # o.id /\ q.emergencyVehicle
    THEN U(1) ELSE 0

\* the recovery as claimed: 0.25 when no reduction is applied and the
\* current speed is below the original speed
ClaimedRecovery(o) ==
    IF /\ ImminentCut(o) = 0 /\ FarCut(o) = 0 /\ NearCut(o) = 0
       /\ o.speed < o.originalSpeed
    THEN U(1) \div 4 ELSE 0

\* the recovery of the code: 0.25 when the third reduction is not applied,
\* the original speed is not 0 and the speed after the first two reductions
\* is below the original speed
Recovery(o) ==
    IF /\ NearCut(o) = 0
       /\ o.originalSpeed # 0
       /\ o.speed - ImminentCut(o) - FarCut(o) < o.originalSpeed
    THEN U(1) \div 4 ELSE 0

\* C16, as claimed: the speed of a BRAKE obstacle after a tick in which it
\* does not crash is max(0, s - 0.5*[0 < timeToCollision < 100]
\* - 0.5*[distance < 200] - 1*[distance < 100 or emergency vehicle] + r)
\* with r = 0.25 only when none of the three reductions was applied and s
\* is below the original speed.
C16_Claimed ==
    [][IsTick =>
        \A o \in Live :
            (o.avoidance = BRAKE /\ ~Crashes(o)) =>
                \A n \in After(o) :
                    n.speed = Max(0, o.speed - ImminentCut(o) - FarCut(o)
                                     - NearCut(o) + ClaimedRecovery(o))]_vars

\* C16, amended: the same sum with r = 0.25 when the third reduction was
\* not applied, the original speed is not 0 and s less the first two
\* reductions is below the original speed.
C16_SpeedFormula ==
    [][IsTick =>
        \A o \in Live :
            (o.avoidance = BRAKE /\ ~Crashes(o)) =>
                \A n \in After(o) :
                    n.speed = Max(0, o.speed - ImminentCut(o) - FarCut(o)
                                     - NearCut(o) + Recovery(o))]_vars

\* a BRAKE obstacle that lost 0.25 from its original speed: it was reduced
\* by 0.5 for a hazard between 100 and 200 units ahead and recovered 0.25
\* in the same tick
C16_Witness ==
    \E o \in Live :
        /\ o.avoidance = BRAKE
        /\ o.speed = o.originalSpeed - U(1) \div 4
        /\ FarCut(o) # 0
        /\ NearCut(o) = 0
        /\ Recovery(o) # 0

\* the crashed obstacles of a sequence of obstacles, as positions
CrashedIn(obstacles) == {j \in 1..Len(obstacles) : obstacles[j].image = "crashed"}

\* C23: a crashed obstacle of the lane is in the lane after every tick, at
\* the same x and y and still crashed, and the lane holds at least as many
\* crashed obstacles after the tick as before.
C23_CrashedStays ==
    [][IsTick =>
        /\ \A j \in CrashedIn(lane.obstacles) :
              \E k \in CrashedIn(lane'.obstacles) :
                  /\ lane'.obstacles[k].id = lane.obstacles[j].id
                  /\ lane'.obstacles[k].x = lane.obstacles[j].x
                  /\ lane'.obstacles[k].y = lane.obstacles[j].y
        /\ Cardinality(CrashedIn(lane'.obstacles))
              >= Cardinality(CrashedIn(lane.obstacles))]_vars

\* the crashed obstacle is the only one left in the lane: the obstacle it
\* ran into has driven on and left the street
C23_Witness ==
    /\ Len(lane.obstacles) = 1
    /\ lane.obstacles[1].image = "crashed"
    /\ lane.obstacles[1].x # StartX

\* C24: a PASS obstacle whose y differs from its original y does not come
\* out of a tick at its original y.
C24_NeverReturns ==
    [][IsTick =>
        \A o \in Live :
            (o.avoidance = PASS /\ o.y # o.originalY) =>
                \A n \in After(o) : n.y # n.originalY]_vars

\* the displacement of o from its original y, and o's passing side: -1
\* (decreasing y) for RIGHT, 1 for LEFT
Displacement(o) == Abs(o.y - o.originalY)
Side(o) == IF o.direction = RIGHT THEN -1 ELSE 1

\* a PASS obstacle is displaced by less than its height + 8, on its passing
\* side, and by at most its height when the height is a multiple of 8
C25_DisplacementBounded ==
    \A o \in Live :
        o.avoidance = PASS =>
            /\ Displacement(o) < o.height + U(8)
            /\ Side(o) * (o.y - o.originalY) >= 0
            /\ o.height % U(8) = 0 => Displacement(o) <= o.height

\* a PASS obstacle whose displacement grows in a tick has made one step of
\* 8 on its passing side
C25_StepsOfEight ==
    [][IsTick =>
        \A o \in Live :
            o.avoidance = PASS =>
                \A n \in After(o) :
                    Displacement(n) > Displacement(o) => n.y = o.y + Side(o) * U(8)]_vars

\* C25: in every reachable state a PASS obstacle is displaced from its
\* original y by less than its height + 8, on its passing side, and by at
\* most its height when the height is a multiple of 8 (the return branch
\* for a displacement above the height is then never taken); it moves away
\* from its original y only in steps of 8.
C25_PassingDisplacement == []C25_DisplacementBounded /\ C25_StepsOfEight

\* a PASS obstacle of height 24 displaced by its height, and stopped there
C25_Witness ==
    \E o \in Live :
        /\ o.avoidance = PASS
        /\ o.height = U(24)
        /\ Displacement(o) = U(24)

\* the step is an update of the signal
IsSignUpdate == updates' = updates + 1

\* the signal is toggled by the step
Toggled ==
    /\ sign'.flashing
    /\ sign'.flashingSequence = ~sign.flashingSequence
    /\ sign'.timestampOfPreviousFlash = now

\* C11: every toggle of the signal flips the sequence flag, and happens at
\* least 500 ms after the previous toggle (after timestamp 0 for the first).
C11_TogglesAlternate ==
    [][sign' # sign =>
        /\ Toggled
        /\ now - sign.timestampOfPreviousFlash >= 500]_vars

\* the signal after a second toggle: flashing, with the sequence flag back
\* to its initial value
C11_Witness ==
    /\ sign.flashing
    /\ ~sign.flashingSequence
    /\ sign.timestampOfPreviousFlash >= 1000

\* C12: once the signal is flashing it stays flashing, and an update more
\* than 500 ms after the last toggle toggles a flashing signal wherever the
\* player is, also when the player is absent.
C12_FlashingLatched ==
    [][/\ sign.flashing => sign'.flashing
       /\ (/\ IsSignUpdate
           /\ sign.flashing
           /\ now - sign.timestampOfPreviousFlash > 500) => Toggled]_vars

\* the signal toggled at the present time with no player among the entities
C12_Witness ==
    /\ sign.flashing
    /\ player = NoPlayer
    /\ sign.timestampOfPreviousFlash = now
    /\ ~sign.flashingSequence

\* the signal is flashing or the player is in the crosswalk zone
Triggered == sign.flashing \/ PlayerInZone

\* C17, as claimed: an update of a triggered signal toggles it when at least
\* 500 ms have elapsed since the last toggle, exactly 500 ms included; every
\* other update leaves the signal unchanged.
C17_Claimed ==
    [][IsSignUpdate =>
        IF Triggered /\ now - sign.timestampOfPreviousFlash >= 500
        THEN Toggled
        ELSE sign' = sign]_vars

\* C17, amended: an update of a triggered signal toggles it when more than
\* 500 ms have elapsed since the last toggle; every other update, the one
\* exactly 500 ms after the last toggle included, leaves the signal unchanged.
C17_TogglesAfterInterval ==
    [][IsSignUpdate =>
        IF Triggered /\ now - sign.timestampOfPreviousFlash > 500
        THEN Toggled
        ELSE sign' = sign]_vars

\* the signal toggled for the first time, at the first instant of the clock
\* after 500 ms, having been updated before that
C17_Witness ==
    /\ sign.flashing
    /\ sign.flashingSequence
    /\ sign.timestampOfPreviousFlash = FlashInterval + TimeStep
    /\ updates >= 3

(***************************************************************************)
(* The street and its obstacle producers.  A producer is a record; its     *)
(* lastObstacleTime, the one field the code assigns in place, is kept in   *)
(* the variable lastObstacleTime under the producer's id.                  *)
(***************************************************************************)

\* maxFrequencyInSeconds: the default of an ObstacleProducer, and the value
\* a CrosswalkObstacleProducer passes to its base class
DefaultFrequency == 1
CrosswalkFrequency == 100000

\* (currentTime - lastObstacleTime) / 1000
MillisecondsPerSecond == 1000

\* a producer without a target
NoTarget == [kind |-> "none"]

\* new ObstacleProducer(template, maxFrequencyInSeconds, assignX, randomizeTraffic)
ObstacleProducer(id, template, maxFrequencyInSeconds, assignX, randomizeTraffic) ==
    [id |-> id, kind |-> "ObstacleProducer", template |-> template,
     maxFrequencyInSeconds |-> maxFrequencyInSeconds, assignX |-> assignX,
     randomizeTraffic |-> randomizeTraffic, target |-> NoTarget]

\* new TargetObstacleProducer(template, maxFrequencyInSeconds, assignX, target)
TargetObstacleProducer(id, template, maxFrequencyInSeconds, assignX, target) ==
    [id |-> id, kind |-> "TargetObstacleProducer", template |-> template,
     maxFrequencyInSeconds |-> maxFrequencyInSeconds, assignX |-> assignX,
     randomizeTraffic |-> FALSE, target |-> target]

\* new CrosswalkObstacleProducer(template)
CrosswalkObstacleProducer(id, template) ==
    [id |-> id, kind |-> "CrosswalkObstacleProducer", template |-> template,
     maxFrequencyInSeconds |-> CrosswalkFrequency, assignX |-> FALSE,
     randomizeTraffic |-> FALSE, target |-> NoTarget]

\* the time gate with the interval taken in milliseconds
superReadyForNext_InMilliseconds(producer, last, t) ==
    t - last[producer.id] > producer.maxFrequencyInSeconds

\* ObstacleProducer.readyForNext at time t, last holding the producers'
\* lastObstacleTime: (t - lastObstacleTime) / 1000 > maxFrequencyInSeconds
superReadyForNext(producer, last, t) ==
    t - last[producer.id] > MillisecondsPerSecond * producer.maxFrequencyInSeconds

\* objects.find((object) => object instanceof CrosswalkSign): an index, 0
\* for undefined
findSign(objects) ==
    LET ss == {i \in 1..Len(objects) : objects[i].kind = "sign"}
    IN  IF ss = {} THEN 0 ELSE CHOOSE i \in ss : \A j \in ss : i <= j

\* TargetObstacleProducer.readyForNext: "true", "false", or "throws"
targetReadyForNext(producer, objects, last, t) ==
    IF superReadyForNext(producer, last, t)
    THEN LET pl == findPlayer(objects)
         IN  IF pl = 0 THEN "throws"
             ELSE IF intersects(objects[pl], producer.target) THEN "true" ELSE "false"
    ELSE "false"

\* the crosswalk producer looking for the sign before its time gate
crosswalkReadyForNext_SignFirst(producer, objects, last, t) ==
    LET sg == findSign(objects)
    IN  IF sg = 0 THEN "throws"
        ELSE IF superReadyForNext(producer, last, t) /\ objects[sg].flashing
             THEN "true" ELSE "false"

\* CrosswalkObstacleProducer.readyForNext: "true", "false", or "throws"
crosswalkReadyForNext(producer, objects, last, t) ==
    IF superReadyForNext(producer, last, t)
    THEN LET sg == findSign(objects)
         IN  IF sg = 0 THEN "throws"
             ELSE IF objects[sg].flashing THEN "true" ELSE "false"
    ELSE "false"

\* producer.readyForNext(objects), dispatched on the producer's class
readyForNext(producer, objects, last, t) ==
    IF producer.kind = "TargetObstacleProducer"
    THEN targetReadyForNext(producer, objects, last, t)
    ELSE IF producer.kind = "CrosswalkObstacleProducer"
    THEN crosswalkReadyForNext(producer, objects, last, t)
    ELSE IF superReadyForNext(producer, last, t) THEN "true" ELSE "false"

\* ObstacleProducer.next(x), the new object getting the identity id; the
\* assignment to lastObstacleTime is made by the caller
next(producer, x, id) ==
    [clone(producer.template,
           IF producer.assignX THEN x ELSE producer.template.x,
           producer.template.y) EXCEPT !.id = id]

\* the constants of Street.generateObstacles: maxPerLane, offsetOffCanvas,
\* and the attempts of the circuit breaker
MaxPerLane == 15
OffsetOffCanvas == U(50)
MaxAttempts == 3

\* new Lane(direction, laneWidth, streetLength, centerY, style, obstacleProducers, obstacles)
ProducerLane(direction, obstacleProducers, obstacles) ==
    [direction |-> direction, streetLength |-> StreetLength,
     obstacleProducers |-> obstacleProducers, obstacles |-> obstacles]

\* Lane.addObstacle
addObstacle(l, obstacle) == [l EXCEPT !.obstacles = Append(@, obstacle)]

\* Street.getAllObstacles
getAllObstacles(s) ==
    LET RECURSIVE flat(_)
        flat(i) == IF i > Len(s.lanes) THEN <<>> ELSE s.lanes[i].obstacles \o flat(i + 1)
    IN  flat(1)

\* an identity no obstacle of the street s or of the lane l has
freshId(s, l) ==
    LET all == getAllObstacles(s) \o l.obstacles
        ids == {all[i].id : i \in 1..Len(all)} \cup {0}
    IN  1 + CHOOSE m \in ids : \A k \in ids : k <= m

\* the next proposal one width away
nextSafeX_OneWidth(safeX, newObstacle, l) == safeX + newObstacle.width * (0 - l.direction)

\* safeX += 2 * newObstacle.width * -lane.direction
nextSafeX(safeX, newObstacle, l) == safeX + 2 * newObstacle.width * (0 - l.direction)

\* the do-while loop of generateObstacles: the obstacles proposed by the
\* producer from safeX on, after `attempts` earlier proposals; the last
\* one is the one added
RECURSIVE proposals(_, _, _, _, _)
proposals(producer, l, safeX, attempts, id) ==
    LET newObstacle == next(producer, safeX, id)
    IN  IF /\ attempts + 1 < MaxAttempts
           /\ collisionDetected(newObstacle, l.obstacles)
        THEN <<newObstacle>> \o
             proposals(producer, l, nextSafeX(safeX, newObstacle, l), attempts + 1, id)
        ELSE <<newObstacle>>

\* every ready producer fires, whatever the random index
fires_AnyIndex(producer, index, randomProducerIndex, ready) == ready = "true"

\* the producer at `index` (counted from 1) fires: it is ready, and it is
\* not randomized or it is the one at the random index (counted from 0)
fires(producer, index, randomProducerIndex, ready) ==
    /\ ready = "true"
    /\ (~producer.randomizeTraffic \/ index - 1 = randomProducerIndex)

\* lane.obstacleProducers.map(...) of generateObstacles from the producer at
\* `index` (counted from 1) on; acc holds the lane, the lastObstacleTime of
\* the producers, the firings so far and whether a readyForNext has thrown
RECURSIVE produce(_, _, _, _, _, _, _)
produce(s, acc, index, x, randomProducerIndex, objects, t) ==
    IF acc.thrown \/ index > Len(acc.lane.obstacleProducers) THEN acc
    ELSE LET producer == acc.lane.obstacleProducers[index]
             ready == readyForNext(producer, objects, acc.last, t)
             proposed == proposals(producer, acc.lane, x, 0, freshId(s, acc.lane))
         IN  IF ready = "throws" THEN [acc EXCEPT !.thrown = TRUE]
             ELSE IF fires(producer, index, randomProducerIndex, ready)
             THEN produce(s,
                          [lane |-> addObstacle(acc.lane, proposed[Len(proposed)]),
                           last |-> [acc.last EXCEPT ![producer.id] = t],
                           fired |-> Append(acc.fired,
                                            [producer |-> producer.id,
                                             proposed |-> proposed]),
                           thrown |-> FALSE],
                          index + 1, x, randomProducerIndex, objects, t)
             ELSE produce(s, acc, index + 1, x, randomProducerIndex, objects, t)

\* Street.generateObstacles(player) at time t, with the two random indexes
\* (counted from 0) and the producers' lastObstacleTime: the new street (the
\* old one when a readyForNext threw), the new lastObstacleTime, the firings
generateObstacles(s, p, randomLaneIndex, randomProducerIndex, last, t) ==
    LET l == s.lanes[randomLaneIndex + 1]
        x == IF l.direction = LEFT
             THEN l.streetLength + OffsetOffCanvas
             ELSE 0 - OffsetOffCanvas
        objects == l.obstacles \o s.sceneObjects \o (IF p = NoPlayer THEN <<>> ELSE <<p>>)
        start == [lane |-> l, last |-> last, fired |-> <<>>, thrown |-> FALSE]
        out == IF Len(l.obstacles) < MaxPerLane
               THEN produce(s, start, 1, x, randomProducerIndex, objects, t)
               ELSE start
    IN  [street |-> IF out.thrown THEN s
                    ELSE [s EXCEPT !.lanes[randomLaneIndex + 1] = out.lane],
         last |-> out.last, fired |-> out.fired, thrown |-> out.thrown]

\* a scene object holding the state of a CrosswalkSign
SceneSign(g) ==
    [kind |-> "sign", flashing |-> g.flashing, flashingSequence |-> g.flashingSequence,
     timestampOfPreviousFlash |-> g.timestampOfPreviousFlash]

\* Street.updateObstacles(player, obstacles) at time t
streetUpdateObstacles(s, p, obstacles, t) ==
    LET others == obstacles \o (IF p = NoPlayer THEN <<>> ELSE <<p>>)
    IN  Street([i \in 1..Len(s.lanes) |-> updateObstacles(s.lanes[i], p, obstacles)],
               [i \in 1..Len(s.sceneObjects) |->
                    SceneSign(update(s.sceneObjects[i], others, t))])

(***************************************************************************)
(* The street under generateObstacles and updateObstacles ticks.  The      *)
(* street has a RIGHT lane with two randomized producers and a producer    *)
(* targeting the crosswalk, and a LEFT lane with a non-randomized producer *)
(* and the producer of the crosswalk's blocking obstacle; the RIGHT lane   *)
(* starts empty or with 14 vehicles, the street has a crosswalk sign or    *)
(* none, and the clock starts at 0 or a second before the crosswalk        *)
(* producer's interval has elapsed.                                        *)
(***************************************************************************)

\* the most generateObstacles and updateObstacles ticks explored in one run
MaxSpawns == 2
MaxStreetUpdates == 1

\* the y of the second lane, and the x of the crosswalk's stop line
SecondLaneY == LaneY + U(60)
StopLineX == U(330)

\* a template named by its image
Template(image, x, y, width, speed, direction) ==
    [Obstacle(0, x, y, width, U(20), speed, direction, NONE, FALSE, FALSE)
        EXCEPT !.image = image]

Car == ObstacleProducer(1, Template("car", 0, LaneY, U(20), SLOW, RIGHT),
                        DefaultFrequency, TRUE, TRUE)
Truck == ObstacleProducer(2, Template("truck", 0, LaneY, U(20), SLOW, RIGHT),
                          DefaultFrequency, TRUE, TRUE)
Bus(assignX) ==
    TargetObstacleProducer(3, Template("bus", U(100), LaneY, U(20), STOPPED, RIGHT),
                           DefaultFrequency, assignX, Crosswalk)
Bike == ObstacleProducer(4, Template("bike", 0, SecondLaneY, U(20), SLOW, LEFT),
                         DefaultFrequency, TRUE, FALSE)
StopLine ==
    CrosswalkObstacleProducer(5, Template("stop", StopLineX, SecondLaneY, U(4), STOPPED, LEFT))

ProducerIds == 1..5

\* 14 vehicles on their way along the RIGHT lane, 40 units apart
Traffic ==
    [k \in 1..(MaxPerLane - 1) |->
        [Obstacle(k, U(40) * k, LaneY, U(20), U(20), SLOW, RIGHT, NONE, FALSE, FALSE)
            EXCEPT !.image = "traffic"]]

\* the street with the given RIGHT lane obstacles and scene objects
StreetOf(assignX, obstacles, sceneObjects) ==
    Street(<<ProducerLane(RIGHT, <<Car, Truck, Bus(assignX)>>, obstacles),
             ProducerLane(LEFT, <<Bike, StopLine>>, <<>>)>>,
           sceneObjects)

Streets ==
    {StreetOf(assignX, <<>>, sceneObjects) :
        assignX \in BOOLEAN, sceneObjects \in {<<>>, <<SceneSign(NewSign)>>}}
    \cup {StreetOf(TRUE, Traffic, <<SceneSign(NewSign)>>)}

\* the clock advances by a second; it starts at 0, or a second before
\* CrosswalkFrequency seconds
StreetTimeStep == MillisecondsPerSecond
LateStart == MillisecondsPerSecond * CrosswalkFrequency - StreetTimeStep
StartTimes == {0, LateStart}

\* a wait just longer than the crosswalk producer's frequency
LongWait == MillisecondsPerSecond * CrosswalkFrequency + StreetTimeStep

\* no player (generateObstacles() without argument), a player on the
\* crosswalk, a player away from it
StreetPlayers ==
    {NoPlayer, Player(U(290), U(100), U(20), U(20)), Player(U(100), U(300), U(20), U(20))}

StreetInit ==
    /\ lane = Lane(RIGHT, <<>>)
    /\ player \in StreetPlayers
    /\ sign = NewSign
    /\ now \in StartTimes
    /\ moves = 0
    /\ updates = 0
    /\ street \in Streets
    /\ lastObstacleTime = [id \in ProducerIds |-> 0]
    /\ spawn = NoSpawn

\* Math.floor(Math.random() * n)
RandomIndex(n) == IF n = 0 THEN {0} ELSE 0..(n - 1)

\* street = street.generateObstacles(player); a call that throws leaves the
\* street as it was
GenerateObstacles ==
    /\ spawn.n < MaxSpawns
    /\ \E randomLaneIndex \in RandomIndex(Len(street.lanes)) :
       \E randomProducerIndex \in
              RandomIndex(Len(street.lanes[randomLaneIndex + 1].obstacleProducers)) :
          LET g == generateObstacles(street, player, randomLaneIndex,
                                     randomProducerIndex, lastObstacleTime, now)
          IN  /\ street' = g.street
              /\ lastObstacleTime' = g.last
              /\ spawn' = [n |-> spawn.n + 1, lane |-> randomLaneIndex,
                           producer |-> randomProducerIndex,
                           thrown |-> g.thrown, fired |-> g.fired]
    /\ UNCHANGED <<lane, player, sign, now, moves, updates>>

\* street = street.updateObstacles(player, street.getAllObstacles())
UpdateObstacles ==
    /\ updates < MaxStreetUpdates
    /\ street' = streetUpdateObstacles(street, player, getAllObstacles(street), now)
    /\ updates' = updates + 1
    /\ UNCHANGED <<lane, player, sign, now, moves, lastObstacleTime, spawn>>

\* the clock advances by the street's time step, for MaxTime after its
\* start, or, once the first 100000 seconds are over, by one long wait
StreetAdvanceTime ==
    /\ \/ /\ \/ now < MaxTime
             \/ now >= LateStart /\ now < LateStart + MaxTime
          /\ now' = now + StreetTimeStep
       \/ /\ now > LateStart + StreetTimeStep
          /\ now <= LateStart + MaxTime
          /\ now' = now + LongWait
    /\ UNCHANGED <<lane, player, sign, moves, updates, streetVars>>

StreetNext == GenerateObstacles \/ UpdateObstacles \/ StreetAdvanceTime

SpecStreet == StreetInit /\ [][StreetNext]_vars

(***************************************************************************)
(* Properties of the street under generateObstacles ticks (SpecStreet).    *)
(***************************************************************************)

\* the step is a generateObstacles tick, and the lane it chose
IsSpawn == spawn'.n = spawn.n + 1
Chosen == spawn'.lane + 1

\* the producers of the street, and the producer with a template's image
Producers ==
    UNION {{street.lanes[i].obstacleProducers[k] :
                k \in 1..Len(street.lanes[i].obstacleProducers)} :
           i \in 1..Len(street.lanes)}
ProducerOf(image) == CHOOSE producer \in Producers : producer.template.image = image

\* the positions in lane i of the obstacles the step has added to it
Added(i) == (Len(street.lanes[i].obstacles) + 1)..Len(street'.lanes[i].obstacles)

\* the time gate of the producer has passed: more than maxFrequencyInSeconds
\* seconds since its lastObstacleTime
Gate(producer) ==
    now - lastObstacleTime[producer.id] > 1000 * producer.maxFrequencyInSeconds

\* the entities generateObstacles supplies to the producers of lane i
Supplied(i) ==
    street.lanes[i].obstacles \o street.sceneObjects
        \o (IF player = NoPlayer THEN <<>> ELSE <<player>>)

\* C13: a generateObstacles tick adds at most one obstacle per producer, and
\* only of a producer whose last emission is more than maxFrequencyInSeconds
\* seconds old; the emission is stamped with the current time, and a stamp
\* only ever changes to the current time.
C13_Throttled ==
    [][/\ \A id \in DOMAIN lastObstacleTime :
            lastObstacleTime'[id] \in {lastObstacleTime[id], now}
       /\ IsSpawn =>
            \A i \in 1..Len(street.lanes) : \A j \in Added(i) :
                LET producer == ProducerOf(street'.lanes[i].obstacles[j].image)
                IN  /\ Gate(producer)
                    /\ lastObstacleTime'[producer.id] = now
                    /\ \A k \in Added(i) :
                          street'.lanes[i].obstacles[k].image = producer.template.image
                              => k = j]_vars

\* the lane holds two obstacles of the first producer, the second one
\* emitted at least a second after the first
C13_Witness ==
    \E i \in 1..Len(street.lanes) :
        /\ Cardinality({j \in 1..Len(street.lanes[i].obstacles) :
                            street.lanes[i].obstacles[j].image = "car"}) = 2
        /\ lastObstacleTime[1] >= LateStart + 1000

\* C14: with the time gate passed, readyForNext of a target producer throws
\* exactly when no player is supplied and readyForNext of a crosswalk
\* producer throws exactly when no sign is supplied; with the gate not
\* passed both return false.
C14_ReadyForNextErrors ==
    \A i \in 1..Len(street.lanes) :
        \A k \in 1..Len(street.lanes[i].obstacleProducers) :
            LET producer == street.lanes[i].obstacleProducers[k]
                result == readyForNext(producer, Supplied(i), lastObstacleTime, now)
                missing ==
                    IF producer.kind = "TargetObstacleProducer"
                    THEN \A n \in 1..Len(Supplied(i)) : Supplied(i)[n].kind # "player"
                    ELSE IF producer.kind = "CrosswalkObstacleProducer"
                    THEN \A n \in 1..Len(Supplied(i)) : Supplied(i)[n].kind # "sign"
                    ELSE FALSE
            IN  /\ result = "throws" <=> Gate(producer) /\ missing
                /\ ~Gate(producer) => result = "false"

\* a tick has thrown for the crosswalk producer: its gate has passed and
\* the street has no sign
C14_Witness ==
    /\ spawn.thrown
    /\ spawn.lane = 1
    /\ street.sceneObjects = <<>>
    /\ now - lastObstacleTime[5] > 1000 * CrosswalkFrequency

\* C15: a generateObstacles tick that throws changes neither the street nor
\* the lastObstacleTime of any producer.
C15_AbortChangesNothing ==
    [][(IsSpawn /\ spawn'.thrown) =>
        /\ street' = street
        /\ lastObstacleTime' = lastObstacleTime]_vars


\* producer k of lane i is selected by the tick: its readyForNext holds and
\* it is not randomized or it is at the random producer index
Selected(i, k) ==
    LET producer == street.lanes[i].obstacleProducers[k]
    IN  /\ readyForNext(producer, Supplied(i), lastObstacleTime, now) = "true"
        /\ (~producer.randomizeTraffic \/ k - 1 = spawn'.producer)

\* the positions in lane i of the obstacles the step has added for producer k
AddedBy(i, k) ==
    {j \in Added(i) : street'.lanes[i].obstacles[j].image =
                          street.lanes[i].obstacleProducers[k].template.image}

\* in the chosen lane exactly the selected producers add an obstacle, one each
SelectedAdd ==
    \A k \in 1..Len(street.lanes[Chosen].obstacleProducers) :
        Cardinality(AddedBy(Chosen, k)) = (IF Selected(Chosen, k) THEN 1 ELSE 0)

\* the lanes that are not chosen are left as they are
OthersKept == \A i \in 1..Len(street.lanes) : i # Chosen => street'.lanes[i] = street.lanes[i]

\* C18, as claimed: in a generateObstacles tick a producer of the chosen
\* lane adds an obstacle if and only if its readyForNext holds and it is
\* non-randomized or at the random producer index; the other lanes gain
\* no obstacle.
C18_Claimed == [][IsSpawn => SelectedAdd /\ OthersKept]_vars

\* C18, amended: the same, in a tick that does not throw and whose chosen
\* lane holds fewer than 15 obstacles; in every other tick no lane gains
\* an obstacle.
C18_SelectedProducersAdd ==
    [][IsSpawn =>
        /\ IF ~spawn'.thrown /\ Len(street.lanes[Chosen].obstacles) < 15
           THEN SelectedAdd
           ELSE street' = street
        /\ OthersKept]_vars

\* a tick of the first lane in which one randomized producer and the
\* non-randomized one have added an obstacle, and the other randomized
\* producer, ready as well, has not
C18_Witness ==
    /\ spawn.lane = 0
    /\ ~spawn.thrown
    /\ Len(spawn.fired) = 2
    /\ spawn.fired[1].producer = 1
    /\ spawn.fired[2].producer = 3
    /\ lastObstacleTime[2] = 0
    /\ now > 1000 * DefaultFrequency

\* the obstacles of the chosen lane when the k-th firing of the tick starts
Current(k) ==
    street.lanes[Chosen].obstacles \o
        [n \in 1..(k - 1) |->
            spawn'.fired[n].proposed[Len(spawn'.fired[n].proposed)]]

\* obstacle o overlaps an obstacle of the sequence
Overlaps(o, obstacles) == \E n \in 1..Len(obstacles) : intersects(o, obstacles[n])

\* the off-screen edge of the chosen lane
Edge ==
    IF street.lanes[Chosen].direction = LEFT
    THEN street.lanes[Chosen].streetLength + U(50)
    ELSE 0 - U(50)

\* the proposals start at the edge, each next one 2 widths further out
FromEdge(proposed) ==
    /\ proposed[1].x = Edge
    /\ \A j \in 1..(Len(proposed) - 1) :
          proposed[j + 1].x =
              proposed[j].x - 2 * proposed[j].width * street.lanes[Chosen].direction

\* at most 3 proposals, stopping at the first that is free or at the third
StopsAtFree(proposed, k) ==
    /\ Len(proposed) \in 1..3
    /\ \A j \in 1..(Len(proposed) - 1) : Overlaps(proposed[j], Current(k))
    /\ Len(proposed) < 3 => ~Overlaps(proposed[Len(proposed)], Current(k))

\* the tick, unless it throws, adds the last proposal of every firing
LastAdded ==
    ~spawn'.thrown =>
        street'.lanes[Chosen].obstacles = Current(Len(spawn'.fired) + 1)

\* C19, as claimed: every firing proposes at most 3 positions, the first at
\* the off-screen edge and each next one 2 widths further out, stopping at
\* the first free one or at the third, and the last one proposed is added.
C19_Claimed ==
    [][IsSpawn =>
        /\ \A k \in 1..Len(spawn'.fired) :
              /\ FromEdge(spawn'.fired[k].proposed)
              /\ StopsAtFree(spawn'.fired[k].proposed, k)
        /\ LastAdded]_vars

\* C19, amended: the positions are those claimed for a producer that
\* assigns x; a producer that does not proposes the x of its template every
\* time; the last proposal is added unless the tick throws.
C19_Proposals ==
    [][IsSpawn =>
        /\ \A k \in 1..Len(spawn'.fired) :
              LET proposed == spawn'.fired[k].proposed
                  producer == ProducerOf(proposed[1].image)
              IN  /\ IF producer.assignX
                     THEN FromEdge(proposed)
                     ELSE \A j \in 1..Len(proposed) : proposed[j].x = producer.template.x
                  /\ StopsAtFree(proposed, k)
        /\ LastAdded]_vars

\* a firing of a producer that assigns x has made three proposals, the
\* third of them added 4 widths beyond the edge
C19_Witness ==
    /\ ~spawn.thrown
    /\ \E k \in 1..Len(spawn.fired) :
          /\ Len(spawn.fired[k].proposed) = 3
          /\ spawn.fired[k].proposed[1].x # spawn.fired[k].proposed[3].x
          /\ \E j \in 1..Len(street.lanes[spawn.lane + 1].obstacles) :
                street.lanes[spawn.lane + 1].obstacles[j] = spawn.fired[k].proposed[3]

\* C20: an obstacle added by generateObstacles overlaps no obstacle that is
\* in its lane when it is added.
C20_AddedAtSafeLocation ==
    [][IsSpawn =>
        \A i \in 1..Len(street.lanes) : \A j \in Added(i) :
            ~Overlaps(street'.lanes[i].obstacles[j],
                      SubSeq(street'.lanes[i].obstacles, 1, j - 1))]_vars


\* C21: no lane of the street ever holds more than 15 obstacles.
C21_LaneCap ==
    \A i \in 1..Len(street.lanes) : Len(street.lanes[i].obstacles) <= 15

\* the blocking obstacles of the crosswalk in the street, as positions
Blocking ==
    UNION {{<<i, j>> : j \in {n \in 1..Len(street.lanes[i].obstacles) :
                                  street.lanes[i].obstacles[n].image = "stop"}} :
           i \in 1..Len(street.lanes)}

\* the sign of the street is flashing
SignFlashing ==
    \E n \in 1..Len(street.sceneObjects) :
        street.sceneObjects[n].kind = "sign" /\ street.sceneObjects[n].flashing

\* C22: a tick adds the crosswalk's blocking obstacle only when the sign
\* of the street is flashing and when more than 100000 seconds have passed
\* since the producer's last emission, which the tick stamps, and it adds
\* it only once: no blocking obstacle has been produced so far.
C22_BlockedOnceWhenFlashing ==
    [][IsSpawn =>
        \A i \in 1..Len(street.lanes) : \A j \in Added(i) :
            street'.lanes[i].obstacles[j].image = "stop" =>
                /\ SignFlashing
                /\ Blocking = {}
                /\ now - lastObstacleTime[ProducerOf("stop").id] > 1000 * 100000
                /\ lastObstacleTime'[ProducerOf("stop").id] = now
                /\ Cardinality({k \in Added(i) :
                        street'.lanes[i].obstacles[k].image = "stop"}) = 1]_vars

====
